---- MODULE Spec2Model ----
(***************************************************************************)
(* A model of the redgifs client: the blocking facade (redgifs/api.py),    *)
(* the suspending facade (redgifs/aio.py) and the command-line entry point *)
(* (redgifs/__main__.py).                                                  *)
(*                                                                         *)
(* The transport (redgifs/http.py), the response parser                    *)
(* (redgifs/parser.py), the tag vocabulary (redgifs/enums.py), the result  *)
(* models (redgifs/models.py) and redgifs/utils.py are not among the       *)
(* source files; the definitions that stand for them follow the            *)
(* specification document and are marked as such where they are defined.   *)
(*                                                                         *)
(* One behaviour follows one program: a caller driving one api.API         *)
(* instance (proc = "sync"), a caller driving one aio.API instance         *)
(* (proc = "aio"), or one run of the command-line entry point              *)
(* (proc = "cli").                                                         *)
(***************************************************************************)
EXTENDS Integers, Sequences, FiniteSets, TLC

VARIABLES
    proc,       \* which program this behaviour follows: "sync", "aio", "cli"
    cli,        \* the run of the command-line entry point (when proc = "cli")
    headers,    \* the transport's current header set (client.http.headers)
    session,    \* the network session of the transport: "open" or "closed"
    closes,     \* how many times close() has been called on the instance
    lastCall,   \* the most recent facade call: what it did and how it ended
    disk        \* the file system: destination name -> content

vars == <<proc, cli, headers, session, closes, lastCall, disk>>

----------------------------------------------------------------------------
(* Bounds of the model.                                                    *)

MaxCloses == 3      \* close() calls followed on one instance
MaxChunks == 2      \* chunks a streamed body is delivered in
MaxLines == 2       \* lines of the URL list file given to the entry point

\* The payloads the remote server serves and the bearer tokens the
\* authentication endpoint issues.
Seeds == {1, 2}
Tokens == {1, 2}

----------------------------------------------------------------------------
(* Python values.                                                          *)

None == [py |-> "None", n |-> 0]
PyInt(n) == [py |-> "int", n |-> n]

\* How a call ends: it returns a value or raises an exception.  `key` is the
\* key a KeyError names, `status` the status code an HTTP failure carries.
Return(v) == [kind |-> "return", type |-> "", key |-> "", status |-> 0, value |-> v]
Raise(t, k, s) == [kind |-> "raise", type |-> t, key |-> k, status |-> s, value |-> None]
KeyError(k) == Raise("KeyError", k, 0)

\* One invocation of a collaborator by the facade.
Invoke(callee, arg) == [callee |-> callee, arg |-> arg]

RECURSIVE Flatten(_)
\* The concatenation of a sequence of sequences.
Flatten(ss) == IF ss = <<>> THEN <<>> ELSE Head(ss) \o Flatten(Tail(ss))

Min(S) == CHOOSE x \in S : \A y \in S : x <= y

\* Sequences over S of length at most n.
SeqsUpTo(S, n) == UNION {[1..k -> S] : k \in 0..n}

----------------------------------------------------------------------------
(* The remote server's answers (inputs of the model).                      *)

Statuses == {200, 404, 500}
IsOk(status) == status >= 200 /\ status < 300

\* The keys of a single-item document and of its `urls` object.
GifKeys == {"id", "createDate", "hasAudio", "width", "height", "likes", "tags",
            "verified", "views", "duration", "published", "urls", "userName",
            "type", "avgColor"}
UrlKeys == {"sd", "hd", "poster", "thumbnail", "vthumbnail"}

\* A media link as the server serves it, https://<host>/<file>?<query>: the
\* file is named after the variant, the query is signed per payload.
Link(k, s) == [host |-> <<"thumbs2", "redgifs", "com">>, file |-> k, query |-> s]

\* A page URL the server puts into the document's `urls` object next to the
\* media links; the facades do not read it.
PayloadWebUrl(s) == <<"https://api.redgifs.com/page/", <<"id", s>>>>

\* A single-item response body served with payload s, lacking the keys in
\* `missing` ("gif" is the wrapper key).
GifBody(s, missing) ==
    IF "gif" \in missing THEN <<>>
    ELSE [gif |-> [k \in GifKeys \ missing |->
                     IF k = "urls"
                     THEN [u \in (UrlKeys \cup {"web_url"}) \ missing |->
                             IF u = "web_url" THEN PayloadWebUrl(s) ELSE Link(u, s)]
                     ELSE <<k, s>>]]

\* The sets of keys a served single-item document may lack: none, any one
\* key, or `urls` together with a key read before or after it.
MissingSets ==
    {{}} \cup {{k} : k \in GifKeys \cup UrlKeys \cup {"gif"}}
         \cup {{"urls", k} : k \in {"id", "avgColor", "sd"}}

\* What the server sends with a non-2xx status.
ErrorBody == [error |-> "remote error"]
ErrorResponses == {[status |-> st, body |-> ErrorBody] : st \in {c \in Statuses : ~IsOk(c)}}
OkResponses(bodies) == {[status |-> st, body |-> b] : st \in {c \in Statuses : IsOk(c)}, b \in bodies}

GifResponses == OkResponses({GifBody(s, m) : s \in Seeds, m \in MissingSets}) \cup ErrorResponses

GifIds == {"abc123", "xyz789"}

\* The ordering and page a search is asked for; count keeps its default.
Orders == {"recent", "trending"}
DefaultCount == 80
SearchParams == {[order |-> "recent", page |-> 1], [order |-> "trending", page |-> 2]}

\* The chunks a streamed body arrives in (an empty chunk is a keep-alive).
Chunks == {<<>>, <<0>>, <<1>>}
ChunkSeqs == SeqsUpTo(Chunks, MaxChunks)

\* The media URLs asked for and the destinations they are saved to.
MediaUrls == {[host |-> <<"thumbs2", "redgifs", "com">>, path |-> <<"a.mp4">>],
              [host |-> <<"example", "com">>, path |-> <<"a.mp4">>]}
Paths == {"out.mp4"}
\* What the destinations hold beforehand: nothing, or an older file.
OldContent == <<1, 1, 1>>
Disks == {<<>>, [d \in Paths \cup {Link("hd", s).file : s \in Seeds} |-> OldContent]}

\* The URLs given to the entry point: a watch page, a page of another site,
\* and a page of the site that is no watch page.
CliUrls == {[host |-> <<"redgifs", "com">>, path |-> <<"watch", "abc123">>],
            [host |-> <<"example", "com">>, path |-> <<"watch", "abc123">>],
            [host |-> <<"redgifs", "com">>, path |-> <<"users", "someone">>]}

\* The parsed arguments: -dl URL, -l FILE (here the file's lines), -v.
CliArgs == {[download |-> d, list |-> l, version |-> v] :
               d \in {<<>>} \cup {<<u>> : u \in CliUrls},
               l \in {[given |-> FALSE, lines |-> <<>>]}
                      \cup {[given |-> TRUE, lines |-> ls] : ls \in SeqsUpTo(CliUrls, MaxLines)},
               v \in BOOLEAN}

----------------------------------------------------------------------------
(* The transport, redgifs/http.py (not among the source files): modelled   *)
(* from sections 4.2 and 4.3 of the specification.                         *)

NoAuth == <<"none", 0>>
DefaultHeaders == [authorization |-> NoAuth, identity |-> "default"]
\* The header set of an acquired credential: bearer token and identity headers.
AuthHeaders(tok, scope) == [authorization |-> <<"Bearer", tok>>, identity |-> scope]

WireRequest(route, arg, hdrs) == [route |-> route, arg |-> arg, headers |-> hdrs]

\* request(method, path, query): one GET carrying the current headers; a
\* non-2xx status fails with the remote error carrying that status, a 2xx
\* status returns the decoded JSON body.  No retry.
HttpRequest(route, arg, resp, hdrs) ==
    [wire |-> <<WireRequest(route, arg, hdrs)>>,
     outcome |-> IF IsOk(resp.status) THEN Return(resp.body)
                 ELSE Raise("RemoteError", "", resp.status)]

HttpGetGif(id, resp, hdrs) == HttpRequest("gifs/{id}", id, resp, hdrs)
HttpGetTags(resp, hdrs) == HttpRequest("tags", None, resp, hdrs)
HttpGetTrendingTags(resp, hdrs) == HttpRequest("tags/trending", None, resp, hdrs)
HttpGetTagSuggestions(query, resp, hdrs) == HttpRequest("tags/suggest", query, resp, hdrs)
HttpSearch(st, order, count, page, resp, hdrs) ==
    HttpRequest("gifs/search", <<st, order, count, page>>, resp, hdrs)
HttpSearchImage(st, order, count, page, resp, hdrs) ==
    HttpRequest("images/search", <<st, order, count, page>>, resp, hdrs)
HttpGifsInfo(gifIds, resp, hdrs) == HttpRequest("gifs", gifIds, resp, hdrs)
HttpSearchCreators(page, order, verified, tags, resp, hdrs) ==
    HttpRequest("creators/search", <<page, order, verified, tags>>, resp, hdrs)
HttpSearchCreator(username, page, order, resp, hdrs) ==
    HttpRequest("users/{username}/search", <<username, page, order>>, resp, hdrs)

\* acquire(username?, password?): one request for a temporary token; with
\* username and password a second request upgrades it.  `answer` is what the
\* remote does: "ok", "reject" (bad username/password) or "unreachable".
HttpLogin(withUser, answer, tok, hdrs) ==
    LET anon == WireRequest("auth/temporary", "", hdrs)
        user == WireRequest("auth/user", "", AuthHeaders(tok, "anonymous"))
    IN  IF answer = "unreachable"
        THEN [wire |-> <<anon>>, headers |-> hdrs,
              outcome |-> Raise("NetworkError", "", 0)]
        ELSE IF ~withUser
        THEN [wire |-> <<anon>>, headers |-> AuthHeaders(tok, "anonymous"),
              outcome |-> Return(TRUE)]
        ELSE IF answer = "reject"
        THEN [wire |-> <<anon, user>>, headers |-> hdrs,
              outcome |-> Raise("AuthenticationError", "", 401)]
        ELSE [wire |-> <<anon, user>>, headers |-> AuthHeaders(tok, "user"),
              outcome |-> Return(TRUE)]

\* close(): closes the session; safe to call more than once and when unused.
HttpClose(sess) == [session |-> "closed", outcome |-> Return(None)]

\* A URL as yarl parses it: the host's labels and the path's segments.
Url(host, path) == [host |-> host, path |-> path]

\* 'redgifs' in str(host): here a host holds it when one of its labels is it.
HostIsRedgifs(host) == \E i \in 1..Len(host) : host[i] = "redgifs"

\* stream(url, destination): refuses a URL whose host is not the media host;
\* otherwise one GET carrying the current headers, whose body arrives in
\* `chunks` and is written chunk by chunk to the destination, replacing what
\* the destination held; returns the number of bytes written.
HttpDownload(url, fp, chunks, hdrs, dsk) ==
    IF ~HostIsRedgifs(url.host)
    THEN [wire |-> <<>>, disk |-> dsk, outcome |-> Raise("InvalidInputError", "", 0)]
    ELSE [wire |-> <<WireRequest("media", url, hdrs)>>,
          disk |-> [d \in DOMAIN dsk \cup {fp} |-> IF d = fp THEN Flatten(chunks) ELSE dsk[d]],
          outcome |-> Return(PyInt(Len(Flatten(chunks))))]

----------------------------------------------------------------------------
(* The tag vocabulary and the Tag Resolver, redgifs/enums.py (not among    *)
(* the source files): modelled from section 4.1 of the specification.      *)
(* A text is a sequence of letters; the letters 1 and 2 are lower case and *)
(* 11 and 12 are their upper case.                                         *)

LowerLetter(c) == IF c > 10 THEN c - 10 ELSE c
LowerCase(text) == [i \in 1..Len(text) |-> LowerLetter(text[i])]

\* The members of Tags, in declaration order: the member's name and the
\* token it stands for.
TagsEnum ==
    << [name |-> <<1, 2>>, value |-> <<11, 2>>],
       [name |-> <<1, 2, 2>>, value |-> <<11, 2, 2>>],
       [name |-> <<2, 1>>, value |-> <<12, 1>>] >>

TagMembers == {TagsEnum[i] : i \in 1..Len(TagsEnum)}

\* The similarity of two texts: the positions at which their lower-case
\* forms agree.
Similarity(a, b) ==
    LET la == LowerCase(a)
        lb == LowerCase(b)
        n == IF Len(la) < Len(lb) THEN Len(la) ELSE Len(lb)
    IN  Cardinality({i \in 1..n : la[i] = lb[i]})

\* Whether member i ranks before member j for `text`: a higher score, or the
\* same score and an earlier declaration.
RanksBefore(text, i, j) ==
    LET si == Similarity(text, TagsEnum[i].value)
        sj == Similarity(text, TagsEnum[j].value)
    IN  si > sj \/ (si = sj /\ i < j)

\* Tags.search(text): the vocabulary's values, best match first.
TagsSearch(text) ==
    LET n == Len(TagsEnum)
        rank(i) == 1 + Cardinality({j \in 1..n : j # i /\ RanksBefore(text, j, i)})
    IN  [r \in 1..n |-> TagsEnum[CHOOSE i \in 1..n : rank(i) = r].value]

\* The free texts callers search for; the second is a tag's own value.
FreeTexts == {<<1, 2>>, <<11, 2>>, <<2, 1>>, <<2, 2, 2>>, <<1>>}

\* search_text: a str or a member of Tags.
Str(text) == [type |-> "str", text |-> text]
SearchTexts == {Str(t) : t \in FreeTexts} \cup {[type |-> "Tags", member |-> m] : m \in TagMembers}

----------------------------------------------------------------------------
(* The response parser, redgifs/parser.py (not among the source files):    *)
(* modelled from section 4.4 of the specification.                         *)

\* The first of `keys`, in order, that `json` lacks; "" when it has them all.
FirstLacking(json, keys) ==
    LET bad == {i \in 1..Len(keys) : keys[i] \notin DOMAIN json}
    IN  IF bad = {} THEN "" ELSE keys[Min(bad)]

PageKeys == <<"page", "pages", "total", "gifs">>

\* parse_search(st, resp): the page's items and pagination with the token.
ParseSearch(st, resp) ==
    IF FirstLacking(resp, PageKeys) # "" THEN KeyError(FirstLacking(resp, PageKeys))
    ELSE Return([searched_for |-> st, page |-> resp["page"], pages |-> resp["pages"],
                 total |-> resp["total"], gifs |-> resp["gifs"], images |-> <<>>])

\* parse_search_image(st, resp): as parse_search, the items being images.
ParseSearchImage(st, resp) ==
    IF FirstLacking(resp, PageKeys) # "" THEN KeyError(FirstLacking(resp, PageKeys))
    ELSE Return([searched_for |-> st, page |-> resp["page"], pages |-> resp["pages"],
                 total |-> resp["total"], gifs |-> <<>>, images |-> resp["gifs"]])

CreatorsKeys == <<"page", "pages", "total", "items">>

\* parse_creators(resp): a page of creators.
ParseCreators(resp) ==
    IF FirstLacking(resp, CreatorsKeys) # "" THEN KeyError(FirstLacking(resp, CreatorsKeys))
    ELSE Return([items |-> resp["items"], page |-> resp["page"], pages |-> resp["pages"],
                 total |-> resp["total"]])

CreatorKeys == <<"users", "page", "pages", "total", "gifs">>

\* parse_creator(resp): one creator's profile and a page of their items.
ParseCreator(resp) ==
    IF FirstLacking(resp, CreatorKeys) # "" THEN KeyError(FirstLacking(resp, CreatorKeys))
    ELSE Return([creator |-> resp["users"], page |-> resp["page"], pages |-> resp["pages"],
                 total |-> resp["total"], gifs |-> resp["gifs"]])

\* A JSON object with `keys`, filled from payload s, lacking `missing`.
Body(keys, s, missing) ==
    [k \in {keys[i] : i \in 1..Len(keys)} \ missing |-> <<k, s>>]

\* The answers to a request whose document should hold `keys`: complete,
\* lacking one key, or a non-2xx status.
Responses(keys) ==
    OkResponses({Body(keys, s, m) : s \in Seeds,
                 m \in {{}} \cup {{keys[i]} : i \in 1..Len(keys)}}) \cup ErrorResponses

\* The answers to a tag-suggestion request: a list of objects with `text`.
SuggestionResponses ==
    OkResponses({<<>>} \cup {<<[text |-> <<"text", s>>]>> : s \in Seeds}
                \cup {<<[text |-> <<"text", s>>], <<>>>> : s \in Seeds}) \cup ErrorResponses

----------------------------------------------------------------------------
(* redgifs/utils.py and redgifs/models.py (not among the source files).    *)

\* _to_web_url: the fixed web URL template applied to an identifier.
ToWebUrl(id) == <<"https://redgifs.com/watch/", id>>

----------------------------------------------------------------------------
(* The facades.  A facade operation yields the collaborators it invoked    *)
(* (trace), the requests the transport sent for it (wire) and its outcome. *)

Called(trace, wire, outcome) == [trace |-> trace, wire |-> wire, outcome |-> outcome]

\* A subscript json[k1] or json[k1][k2] the GIF constructor call evaluates;
\* the key the KeyError names when it fails, "" when it succeeds.
FailedKey(json, path) ==
    IF path[1] \notin DOMAIN json THEN path[1]
    ELSE IF Len(path) = 2 /\ path[2] \notin DOMAIN json[path[1]] THEN path[2]
    ELSE ""

\* The first of the subscripts `reads`, in evaluation order, that fails.
FirstFailure(json, reads) ==
    LET bad == {i \in 1..Len(reads) : FailedKey(json, reads[i]) # ""}
    IN  IF bad = {} THEN "" ELSE FailedKey(json, reads[Min(bad)])

\* api.py: the subscripts of the GIF(...) call in argument order.
ApiGifReads ==
    << <<"id">>, <<"createDate">>, <<"hasAudio">>, <<"width">>, <<"height">>,
       <<"likes">>, <<"tags">>, <<"verified">>, <<"views">>, <<"duration">>,
       <<"published">>, <<"urls", "sd">>, <<"urls", "hd">>, <<"urls", "poster">>,
       <<"urls", "thumbnail">>, <<"urls", "vthumbnail">>, <<"id">>,
       <<"userName">>, <<"type">>, <<"avgColor">> >>

\* A variant of ApiGIF that takes the web URL from the document.
ApiGIFPayloadUrl(json) ==
    [id |-> json["id"],
     create_date |-> json["createDate"],
     has_audio |-> json["hasAudio"],
     width |-> json["width"],
     height |-> json["height"],
     likes |-> json["likes"],
     tags |-> json["tags"],
     verified |-> json["verified"],
     views |-> json["views"],
     duration |-> json["duration"],
     published |-> json["published"],
     urls |-> [sd |-> json["urls"]["sd"],
               hd |-> json["urls"]["hd"],
               poster |-> json["urls"]["poster"],
               thumbnail |-> json["urls"]["thumbnail"],
               vthumbnail |-> json["urls"]["vthumbnail"],
               web_url |-> json["urls"]["web_url"]],
     username |-> json["userName"],
     type |-> json["type"],
     avg_color |-> json["avgColor"]]

\* api.py: the GIF built from a single-item document.
ApiGIF(json) ==
    [id |-> json["id"],
     create_date |-> json["createDate"],
     has_audio |-> json["hasAudio"],
     width |-> json["width"],
     height |-> json["height"],
     likes |-> json["likes"],
     tags |-> json["tags"],
     verified |-> json["verified"],
     views |-> json["views"],
     duration |-> json["duration"],
     published |-> json["published"],
     urls |-> [sd |-> json["urls"]["sd"],
               hd |-> json["urls"]["hd"],
               poster |-> json["urls"]["poster"],
               thumbnail |-> json["urls"]["thumbnail"],
               vthumbnail |-> json["urls"]["vthumbnail"],
               web_url |-> ToWebUrl(json["id"])],
     username |-> json["userName"],
     type |-> json["type"],
     avg_color |-> json["avgColor"]]

\* api.py, API.get_gif.
ApiGetGif(id, resp, hdrs) ==
    LET t == HttpGetGif(id, resp, hdrs)
        trace == <<Invoke("http.get_gif", id)>>
    IN  IF t.outcome.kind = "raise" THEN Called(trace, t.wire, t.outcome)
        ELSE IF "gif" \notin DOMAIN t.outcome.value
        THEN Called(trace, t.wire, KeyError("gif"))
        ELSE LET json == t.outcome.value["gif"]
                 failed == FirstFailure(json, ApiGifReads)
             IN  IF failed # "" THEN Called(trace, t.wire, KeyError(failed))
                 ELSE Called(trace, t.wire, Return(ApiGIF(json)))

\* aio.py: the subscripts of the GIF(...) call in argument order.
AioGifReads ==
    << <<"id">>, <<"createDate">>, <<"hasAudio">>, <<"width">>, <<"height">>,
       <<"likes">>, <<"tags">>, <<"verified">>, <<"views">>, <<"duration">>,
       <<"published">>, <<"urls", "sd">>, <<"urls", "hd">>, <<"urls", "poster">>,
       <<"urls", "thumbnail">>, <<"urls", "vthumbnail">>, <<"id">>,
       <<"userName">>, <<"type">>, <<"avgColor">> >>

\* A variant of AioGIF that takes sd and hd from each other's key.
AioGIFSwapped(json) ==
    [id |-> json["id"],
     create_date |-> json["createDate"],
     has_audio |-> json["hasAudio"],
     width |-> json["width"],
     height |-> json["height"],
     likes |-> json["likes"],
     tags |-> json["tags"],
     verified |-> json["verified"],
     views |-> json["views"],
     duration |-> json["duration"],
     published |-> json["published"],
     urls |-> [sd |-> json["urls"]["hd"],
               hd |-> json["urls"]["sd"],
               poster |-> json["urls"]["poster"],
               thumbnail |-> json["urls"]["thumbnail"],
               vthumbnail |-> json["urls"]["vthumbnail"],
               web_url |-> ToWebUrl(json["id"])],
     username |-> json["userName"],
     type |-> json["type"],
     avg_color |-> json["avgColor"]]

\* aio.py: the GIF built from a single-item document.
AioGIF(json) ==
    [id |-> json["id"],
     create_date |-> json["createDate"],
     has_audio |-> json["hasAudio"],
     width |-> json["width"],
     height |-> json["height"],
     likes |-> json["likes"],
     tags |-> json["tags"],
     verified |-> json["verified"],
     views |-> json["views"],
     duration |-> json["duration"],
     published |-> json["published"],
     urls |-> [sd |-> json["urls"]["sd"],
               hd |-> json["urls"]["hd"],
               poster |-> json["urls"]["poster"],
               thumbnail |-> json["urls"]["thumbnail"],
               vthumbnail |-> json["urls"]["vthumbnail"],
               web_url |-> ToWebUrl(json["id"])],
     username |-> json["userName"],
     type |-> json["type"],
     avg_color |-> json["avgColor"]]

\* A variant of AioGetGif that, when the transport fails, logs in again and
\* sends the request a second time.
AioGetGifRetrying(id, resp, hdrs) ==
    LET t == HttpGetGif(id, resp, hdrs)
        once == <<Invoke("http.get_gif", id)>>
        again == <<Invoke("http.get_gif", id), Invoke("http.login", FALSE),
                   Invoke("http.get_gif", id)>>
    IN  IF t.outcome.kind = "raise" THEN Called(again, t.wire \o t.wire, t.outcome)
        ELSE IF "gif" \notin DOMAIN t.outcome.value
        THEN Called(once, t.wire, KeyError("gif"))
        ELSE LET json == t.outcome.value["gif"]
                 failed == FirstFailure(json, AioGifReads)
             IN  IF failed # "" THEN Called(once, t.wire, KeyError(failed))
                 ELSE Called(once, t.wire, Return(AioGIF(json)))

\* A variant of AioGetGif that reads `urls` with a default: a document
\* without it gives a GIF whose URLs are all None.
AioGetGifLenient(id, resp, hdrs) ==
    LET t == HttpGetGif(id, resp, hdrs)
        trace == <<Invoke("http.get_gif", id)>>
    IN  IF t.outcome.kind = "raise" THEN Called(trace, t.wire, t.outcome)
        ELSE IF "gif" \notin DOMAIN t.outcome.value
        THEN Called(trace, t.wire, KeyError("gif"))
        ELSE LET given == t.outcome.value["gif"]
                 json == [k \in DOMAIN given \cup {"urls"} |->
                            IF k \in DOMAIN given THEN given[k]
                            ELSE [u \in UrlKeys |-> None]]
                 failed == FirstFailure(json, AioGifReads)
             IN  IF failed # "" THEN Called(trace, t.wire, KeyError(failed))
                 ELSE Called(trace, t.wire, Return(AioGIF(json)))

\* aio.py, API.get_gif.
AioGetGif(id, resp, hdrs) ==
    LET t == HttpGetGif(id, resp, hdrs)
        trace == <<Invoke("http.get_gif", id)>>
    IN  IF t.outcome.kind = "raise" THEN Called(trace, t.wire, t.outcome)
        ELSE IF "gif" \notin DOMAIN t.outcome.value
        THEN Called(trace, t.wire, KeyError("gif"))
        ELSE LET json == t.outcome.value["gif"]
                 failed == FirstFailure(json, AioGifReads)
             IN  IF failed # "" THEN Called(trace, t.wire, KeyError(failed))
                 ELSE Called(trace, t.wire, Return(AioGIF(json)))

\* api.py, API.get_tags.
ApiGetTags(resp, hdrs) ==
    LET t == HttpGetTags(resp, hdrs)
        trace == <<Invoke("http.get_tags", None)>>
    IN  IF t.outcome.kind = "raise" THEN Called(trace, t.wire, t.outcome)
        ELSE IF "tags" \notin DOMAIN t.outcome.value
        THEN Called(trace, t.wire, KeyError("tags"))
        ELSE Called(trace, t.wire, Return(t.outcome.value["tags"]))

\* api.py, API.get_trending_tags.
ApiGetTrendingTags(resp, hdrs) ==
    LET t == HttpGetTrendingTags(resp, hdrs)
        trace == <<Invoke("http.get_trending_tags", None)>>
    IN  IF t.outcome.kind = "raise" THEN Called(trace, t.wire, t.outcome)
        ELSE IF "tags" \notin DOMAIN t.outcome.value
        THEN Called(trace, t.wire, KeyError("tags"))
        ELSE Called(trace, t.wire, Return(t.outcome.value["tags"]))

\* api.py, API.fetch_tag_suggestions: d['text'] of every element.
ApiFetchTagSuggestions(query, resp, hdrs) ==
    LET t == HttpGetTagSuggestions(query, resp, hdrs)
        trace == <<Invoke("http.get_tag_suggestions", query)>>
    IN  IF t.outcome.kind = "raise" THEN Called(trace, t.wire, t.outcome)
        ELSE LET result == t.outcome.value
             IN  IF \E i \in 1..Len(result) : "text" \notin DOMAIN result[i]
                 THEN Called(trace, t.wire, KeyError("text"))
                 ELSE Called(trace, t.wire,
                             Return([i \in 1..Len(result) |-> result[i]["text"]]))

\* A variant of ApiSearch that also fetches the page after the one asked for.
ApiSearchPaged(search_text, order, count, page, resp, hdrs) ==
    LET pre == IF search_text.type = "str"
               THEN <<Invoke("Tags.search", search_text.text)>> ELSE <<>>
        st == IF search_text.type = "str" THEN TagsSearch(search_text.text)[1]
              ELSE search_text.member.value
        t == HttpSearch(st, order, count, page, resp, hdrs)
        u == HttpSearch(st, order, count, page + 1, resp, hdrs)
        trace == pre \o <<Invoke("http.search", <<st, order, count, page>>),
                          Invoke("http.search", <<st, order, count, page + 1>>)>>
    IN  IF t.outcome.kind = "raise" THEN Called(trace, t.wire \o u.wire, t.outcome)
        ELSE Called(trace, t.wire \o u.wire, ParseSearch(st, t.outcome.value))

\* A variant of ApiSearch that sends a str as it is, without Tags.search.
ApiSearchVerbatim(search_text, order, count, page, resp, hdrs) ==
    LET st == IF search_text.type = "str" THEN search_text.text
              ELSE search_text.member.value
        t == HttpSearch(st, order, count, page, resp, hdrs)
        trace == <<Invoke("http.search", <<st, order, count, page>>)>>
    IN  IF t.outcome.kind = "raise" THEN Called(trace, t.wire, t.outcome)
        ELSE Called(trace, t.wire, ParseSearch(st, t.outcome.value))

\* api.py, API.search (also bound to the name search_gif): a str goes
\* through Tags.search and its first result is the token, a member of Tags
\* gives its value.
ApiSearch(search_text, order, count, page, resp, hdrs) ==
    LET resolved == IF search_text.type = "str" THEN TagsSearch(search_text.text) ELSE <<>>
        pre == IF search_text.type = "str"
               THEN <<Invoke("Tags.search", search_text.text)>> ELSE <<>>
    IN  IF search_text.type = "str" /\ resolved = <<>>
        THEN Called(pre, <<>>, Raise("IndexError", "", 0))
        ELSE LET st == IF search_text.type = "str" THEN resolved[1]
                       ELSE search_text.member.value
                 t == HttpSearch(st, order, count, page, resp, hdrs)
                 trace == pre \o <<Invoke("http.search", <<st, order, count, page>>)>>
             IN  IF t.outcome.kind = "raise" THEN Called(trace, t.wire, t.outcome)
                 ELSE Called(trace, t.wire, ParseSearch(st, t.outcome.value))

\* api.py, API.gifs_info: the response is printed; nothing is returned.
ApiGifsInfo(gifIds, resp, hdrs) ==
    LET t == HttpGifsInfo(gifIds, resp, hdrs)
        trace == <<Invoke("http.gifs_info", gifIds)>>
    IN  IF t.outcome.kind = "raise" THEN Called(trace, t.wire, t.outcome)
        ELSE Called(trace, t.wire, Return(None))

\* api.py, API.search_creators.
ApiSearchCreators(page, order, verified, tags, resp, hdrs) ==
    LET t == HttpSearchCreators(page, order, verified, tags, resp, hdrs)
        trace == <<Invoke("http.search_creators", <<page, order, verified, tags>>)>>
    IN  IF t.outcome.kind = "raise" THEN Called(trace, t.wire, t.outcome)
        ELSE Called(trace, t.wire, ParseCreators(t.outcome.value))

\* api.py, API.search_creator (also bound to the name search_user); the
\* transport is given keywords page=, order=.
ApiSearchCreator(username, page, order, resp, hdrs) ==
    LET t == HttpSearchCreator(username, page, order, resp, hdrs)
        trace == <<Invoke("http.search_creator", <<username, page, order>>)>>
    IN  IF t.outcome.kind = "raise" THEN Called(trace, t.wire, t.outcome)
        ELSE Called(trace, t.wire, ParseCreator(t.outcome.value))

\* api.py, API.search_image: a str is the token as it is (Tags.search is
\* not used here), a member of Tags gives its value.
ApiSearchImage(search_text, order, count, page, resp, hdrs) ==
    LET st == IF search_text.type = "str" THEN search_text.text
              ELSE search_text.member.value
        t == HttpSearchImage(st, order, count, page, resp, hdrs)
        trace == <<Invoke("http.search_image", <<st, order, count, page>>)>>
    IN  IF t.outcome.kind = "raise" THEN Called(trace, t.wire, t.outcome)
        ELSE Called(trace, t.wire, ParseSearchImage(st, t.outcome.value))

\* api.py, API.download: what the transport's download returns.
ApiDownload(url, fp, chunks, hdrs, dsk) ==
    LET t == HttpDownload(url, fp, chunks, hdrs, dsk)
    IN  [trace |-> <<Invoke("http.download", <<url, fp>>)>>, wire |-> t.wire,
         outcome |-> t.outcome, disk |-> t.disk]

\* aio.py, API.get_tags.
AioGetTags(resp, hdrs) ==
    LET t == HttpGetTags(resp, hdrs)
        trace == <<Invoke("http.get_tags", None)>>
    IN  IF t.outcome.kind = "raise" THEN Called(trace, t.wire, t.outcome)
        ELSE IF "tags" \notin DOMAIN t.outcome.value
        THEN Called(trace, t.wire, KeyError("tags"))
        ELSE Called(trace, t.wire, Return(t.outcome.value["tags"]))

\* aio.py, API.get_trending_tags.
AioGetTrendingTags(resp, hdrs) ==
    LET t == HttpGetTrendingTags(resp, hdrs)
        trace == <<Invoke("http.get_trending_tags", None)>>
    IN  IF t.outcome.kind = "raise" THEN Called(trace, t.wire, t.outcome)
        ELSE IF "tags" \notin DOMAIN t.outcome.value
        THEN Called(trace, t.wire, KeyError("tags"))
        ELSE Called(trace, t.wire, Return(t.outcome.value["tags"]))

\* aio.py, API.fetch_tag_suggestions: d['text'] of every element.
AioFetchTagSuggestions(query, resp, hdrs) ==
    LET t == HttpGetTagSuggestions(query, resp, hdrs)
        trace == <<Invoke("http.get_tag_suggestions", query)>>
    IN  IF t.outcome.kind = "raise" THEN Called(trace, t.wire, t.outcome)
        ELSE LET result == t.outcome.value
             IN  IF \E i \in 1..Len(result) : "text" \notin DOMAIN result[i]
                 THEN Called(trace, t.wire, KeyError("text"))
                 ELSE Called(trace, t.wire,
                             Return([i \in 1..Len(result) |-> result[i]["text"]]))

\* A variant of AioSearch that takes a member's name for its value.
AioSearchByName(search_text, order, count, page, resp, hdrs) ==
    LET pre == IF search_text.type = "str"
               THEN <<Invoke("Tags.search", search_text.text)>> ELSE <<>>
        st == IF search_text.type = "str" THEN TagsSearch(search_text.text)[1]
              ELSE search_text.member.name
        t == HttpSearch(st, order, count, page, resp, hdrs)
        trace == pre \o <<Invoke("http.search", <<st, order, count, page>>)>>
    IN  IF t.outcome.kind = "raise" THEN Called(trace, t.wire, t.outcome)
        ELSE Called(trace, t.wire, ParseSearch(st, t.outcome.value))

\* aio.py, API.search (also bound to the name search_gif): a str goes
\* through Tags.search and its first result is the token, a member of Tags
\* gives its value.
AioSearch(search_text, order, count, page, resp, hdrs) ==
    LET resolved == IF search_text.type = "str" THEN TagsSearch(search_text.text) ELSE <<>>
        pre == IF search_text.type = "str"
               THEN <<Invoke("Tags.search", search_text.text)>> ELSE <<>>
    IN  IF search_text.type = "str" /\ resolved = <<>>
        THEN Called(pre, <<>>, Raise("IndexError", "", 0))
        ELSE LET st == IF search_text.type = "str" THEN resolved[1]
                       ELSE search_text.member.value
                 t == HttpSearch(st, order, count, page, resp, hdrs)
                 trace == pre \o <<Invoke("http.search", <<st, order, count, page>>)>>
             IN  IF t.outcome.kind = "raise" THEN Called(trace, t.wire, t.outcome)
                 ELSE Called(trace, t.wire, ParseSearch(st, t.outcome.value))

\* aio.py, API.search_creators.
AioSearchCreators(page, order, verified, tags, resp, hdrs) ==
    LET t == HttpSearchCreators(page, order, verified, tags, resp, hdrs)
        trace == <<Invoke("http.search_creators", <<page, order, verified, tags>>)>>
    IN  IF t.outcome.kind = "raise" THEN Called(trace, t.wire, t.outcome)
        ELSE Called(trace, t.wire, ParseCreators(t.outcome.value))

\* aio.py, API.search_creator (also bound to the name search_user); the
\* transport is given page, order positionally.
AioSearchCreator(username, page, order, resp, hdrs) ==
    LET t == HttpSearchCreator(username, page, order, resp, hdrs)
        trace == <<Invoke("http.search_creator", <<username, page, order>>)>>
    IN  IF t.outcome.kind = "raise" THEN Called(trace, t.wire, t.outcome)
        ELSE Called(trace, t.wire, ParseCreator(t.outcome.value))

\* aio.py, API.search_image: a str is the token as it is (Tags.search is
\* not used here), a member of Tags gives its value.
AioSearchImage(search_text, order, count, page, resp, hdrs) ==
    LET st == IF search_text.type = "str" THEN search_text.text
              ELSE search_text.member.value
        t == HttpSearchImage(st, order, count, page, resp, hdrs)
        trace == <<Invoke("http.search_image", <<st, order, count, page>>)>>
    IN  IF t.outcome.kind = "raise" THEN Called(trace, t.wire, t.outcome)
        ELSE Called(trace, t.wire, ParseSearchImage(st, t.outcome.value))

\* aio.py, API.download: what the transport's download returns.
AioDownload(url, fp, chunks, hdrs, dsk) ==
    LET t == HttpDownload(url, fp, chunks, hdrs, dsk)
    IN  [trace |-> <<Invoke("http.download", <<url, fp>>)>>, wire |-> t.wire,
         outcome |-> t.outcome, disk |-> t.disk]

\* api.py, API.close.
ApiClose(sess) == HttpClose(sess)

\* A variant of AioClose that refuses an instance that is closed already.
AioCloseOnce(sess) ==
    IF sess = "closed"
    THEN [session |-> sess, outcome |-> Raise("RuntimeError", "", 0)]
    ELSE HttpClose(sess)

\* aio.py, API.close.
AioClose(sess) == HttpClose(sess)

\* api.py, API.login(ip_address, user_agent, username=None, password=None):
\* the positional arguments a call must give.
ApiLoginRequired == 2

\* aio.py, API.login(username=None, password=None).
AioLoginRequired == 0

\* api.py, API.login called with `given` positional arguments.
ApiLogin(given, withUser, answer, tok, hdrs) ==
    IF given < ApiLoginRequired
    THEN [wire |-> <<>>, headers |-> hdrs, outcome |-> Raise("TypeError", "", 0)]
    ELSE HttpLogin(withUser, answer, tok, hdrs)

\* aio.py, API.login called with `given` positional arguments.
AioLogin(given, withUser, answer, tok, hdrs) ==
    IF given < AioLoginRequired
    THEN [wire |-> <<>>, headers |-> hdrs, outcome |-> Raise("TypeError", "", 0)]
    ELSE HttpLogin(withUser, answer, tok, hdrs)

----------------------------------------------------------------------------
(* The command-line entry point, redgifs/__main__.py.                      *)

\* The name redgifs.API is bound by redgifs/__init__.py, which is not among
\* the source files.  Bound to api.py's API, login requires two positional
\* arguments; as the specification describes the facade (section 4.2,
\* acquire(username?, password?)), it requires none.  Both are followed.
ApiBindings == {"api.py", "specification"}

\* client.login() at module level gives no argument.
MainLoginArgs == 0

\* client.login() of the module-level client.
ClientLogin(binding, answer, tok, hdrs) ==
    IF binding = "api.py" THEN ApiLogin(MainLoginArgs, FALSE, answer, tok, hdrs)
    ELSE HttpLogin(FALSE, answer, tok, hdrs)

\* mp4_link.split('/')[3].split('?')[0]: the file part of the link, without
\* its query.
FileName(mp4_link) == mp4_link.file

RECURSIVE WriteChunks(_, _)
\* The loop of save_to_file: every chunk that is not empty is written.
WriteChunks(f, chunks) ==
    IF chunks = <<>> THEN f
    ELSE WriteChunks(IF Head(chunks) # <<>> THEN f \o Head(chunks) ELSE f, Tail(chunks))

\* A variant of SaveToFile that sends the request without the client's
\* headers.
SaveToFileBare(mp4_link, chunks, hdrs, dsk) ==
    LET file_name == FileName(mp4_link)
        written == WriteChunks(<<>>, chunks)
    IN  [wire |-> <<WireRequest("media", mp4_link, DefaultHeaders)>>,
         name |-> file_name,
         disk |-> [d \in DOMAIN dsk \cup {file_name} |->
                     IF d = file_name THEN written ELSE dsk[d]],
         outcome |-> Return(None)]

\* A variant of SaveToFile that opens the file for appending.
SaveToFileAppending(mp4_link, chunks, hdrs, dsk) ==
    LET file_name == FileName(mp4_link)
        old == IF file_name \in DOMAIN dsk THEN dsk[file_name] ELSE <<>>
        written == WriteChunks(old, chunks)
    IN  [wire |-> <<WireRequest("media", mp4_link, hdrs)>>,
         name |-> file_name,
         disk |-> [d \in DOMAIN dsk \cup {file_name} |->
                     IF d = file_name THEN written ELSE dsk[d]],
         outcome |-> Return(None)]

\* save_to_file(mp4_link): a streamed GET with the client's headers, written
\* to a file opened 'wb' (created or truncated); returns None.
SaveToFile(mp4_link, chunks, hdrs, dsk) ==
    LET file_name == FileName(mp4_link)
        written == WriteChunks(<<>>, chunks)
    IN  [wire |-> <<WireRequest("media", mp4_link, hdrs)>>,
         name |-> file_name,
         disk |-> [d \in DOMAIN dsk \cup {file_name} |->
                     IF d = file_name THEN written ELSE dsk[d]],
         outcome |-> Return(None)]

\* 'watch' in yarl_url.path: here a path holds it when a segment is it.
PathHasWatch(path) == \E i \in 1..Len(path) : path[i] = "watch"

\* start_dl(url) up to the call of save_to_file: the host check, the watch
\* check and client.get_gif(id).urls.hd.  `next` is where the run goes:
\* "save" with the link in hd, "return" when there is nothing to do,
\* "raise" when an exception leaves start_dl.
StartDl(url, resp, hdrs) ==
    IF ~HostIsRedgifs(url.host)
    THEN [next |-> "raise", wire |-> <<>>, outcome |-> Raise("TypeError", "", 0), hd |-> None]
    ELSE IF ~PathHasWatch(url.path)
    THEN [next |-> "return", wire |-> <<>>, outcome |-> Return(None), hd |-> None]
    ELSE LET id == url.path[Len(url.path)]
             c == ApiGetGif(id, resp, hdrs)
         IN  IF c.outcome.kind = "raise"
             THEN [next |-> "raise", wire |-> c.wire, outcome |-> c.outcome, hd |-> None]
             ELSE [next |-> "save", wire |-> c.wire, outcome |-> Return(None),
                   hd |-> c.outcome.value.urls.hd]

\* The run of the entry point.  pc is where it stands: "load" (the module's
\* own statements), "main", "download", "list", "save" (inside
\* save_to_file), "version", and the ends "done", "exited" and "raised".
\* loggedIn: client.login() has returned; line: the lines of the list file
\* taken so far, attempted: the URLs start_dl was called with in the loop;
\* wire: the requests sent by the latest step; saved: the latest
\* save_to_file (file, response body, return value); raised: the type of the
\* exception that ended the run, exit: the exit status.
CliStart(binding, args) ==
    [pc |-> "load", binding |-> binding, args |-> args, loggedIn |-> FALSE, line |-> 0,
     attempted |-> <<>>, wire |-> <<>>, hd |-> None, saved |-> <<>>,
     raised |-> "", exit |-> 0]

NoCli == [pc |-> "none", binding |-> "none", args |-> None, loggedIn |-> FALSE, line |-> 0,
          attempted |-> <<>>, wire |-> <<>>, hd |-> None, saved |-> <<>>,
          raised |-> "", exit |-> 0]

----------------------------------------------------------------------------
(* The state machine.                                                      *)

\* A facade call as the state records it.
Call(op, arg, resp, c) ==
    [op |-> op, arg |-> arg, resp |-> resp,
     trace |-> c.trace, wire |-> c.wire, outcome |-> c.outcome]

NoCall == [op |-> "none", arg |-> None, resp |-> None,
           trace |-> <<>>, wire |-> <<>>, outcome |-> Return(None)]

\* After construction: API.__init__ builds the transport and does nothing else.
Init ==
    /\ proc \in {"sync", "aio", "cli"}
    /\ IF proc = "cli"
       THEN \E b \in ApiBindings, a \in CliArgs : cli = CliStart(b, a)
       ELSE cli = NoCli
    /\ headers = DefaultHeaders
    /\ session = "open"
    /\ closes = 0
    /\ lastCall = NoCall
    /\ disk \in Disks

\* The caller is free to make its next call.
Ready == proc \in {"sync", "aio"} /\ lastCall.op = "none"

\* Callers call the operations of an instance they have not closed.
Library == Ready /\ session = "open"

\* login(...) on either facade: delegates to the transport's login.
Login ==
    /\ Library
    /\ \E withUser \in BOOLEAN, answer \in {"ok", "reject", "unreachable"}, tok \in Tokens :
         LET t == IF proc = "sync"
                  THEN ApiLogin(ApiLoginRequired, withUser, answer, tok, headers)
                  ELSE AioLogin(AioLoginRequired, withUser, answer, tok, headers)
         IN  /\ headers' = t.headers
             /\ lastCall' = Call("login", withUser, answer,
                                 Called(<<Invoke("http.login", withUser)>>, t.wire, t.outcome))
    /\ UNCHANGED <<proc, cli, session, closes, disk>>

\* get_gif(id) on either facade.
GetGif ==
    /\ Library
    /\ \E id \in GifIds, resp \in GifResponses :
         lastCall' = Call("get_gif", id, resp,
                          IF proc = "sync" THEN ApiGetGif(id, resp, headers)
                          ELSE AioGetGif(id, resp, headers))
    /\ UNCHANGED <<proc, cli, headers, session, closes, disk>>

\* close() on either facade; it may be called again on a closed instance.
Close ==
    /\ Ready
    /\ closes < MaxCloses
    /\ LET t == IF proc = "sync" THEN ApiClose(session) ELSE AioClose(session)
       IN  /\ session' = t.session
           /\ lastCall' = Call("close", None, None,
                               Called(<<Invoke("http.close", None)>>, <<>>, t.outcome))
    /\ closes' = closes + 1
    /\ UNCHANGED <<proc, cli, headers, disk>>

\* get_tags() on either facade.
GetTags ==
    /\ Library
    /\ \E resp \in Responses(<<"tags">>) :
         lastCall' = Call("get_tags", None, resp,
                          IF proc = "sync" THEN ApiGetTags(resp, headers)
                          ELSE AioGetTags(resp, headers))
    /\ UNCHANGED <<proc, cli, headers, session, closes, disk>>

\* get_trending_tags() on either facade.
GetTrendingTags ==
    /\ Library
    /\ \E resp \in Responses(<<"tags">>) :
         lastCall' = Call("get_trending_tags", None, resp,
                          IF proc = "sync" THEN ApiGetTrendingTags(resp, headers)
                          ELSE AioGetTrendingTags(resp, headers))
    /\ UNCHANGED <<proc, cli, headers, session, closes, disk>>

\* fetch_tag_suggestions(query) on either facade.
FetchTagSuggestions ==
    /\ Library
    /\ \E query \in FreeTexts, resp \in SuggestionResponses :
         lastCall' = Call("fetch_tag_suggestions", query, resp,
                          IF proc = "sync" THEN ApiFetchTagSuggestions(query, resp, headers)
                          ELSE AioFetchTagSuggestions(query, resp, headers))
    /\ UNCHANGED <<proc, cli, headers, session, closes, disk>>

\* search(search_text, order=, page=) on either facade, under either of the
\* names it is bound to.
Search ==
    /\ Library
    /\ \E name \in {"search", "search_gif"}, st \in SearchTexts, q \in SearchParams,
          resp \in Responses(PageKeys) :
         lastCall' = Call(name, st, resp,
                          IF proc = "sync"
                          THEN ApiSearch(st, q.order, DefaultCount, q.page, resp, headers)
                          ELSE AioSearch(st, q.order, DefaultCount, q.page, resp, headers))
    /\ UNCHANGED <<proc, cli, headers, session, closes, disk>>

\* gifs_info(gifIds), which only the blocking facade has.
GifsInfo ==
    /\ Library
    /\ proc = "sync"
    /\ \E id \in GifIds, resp \in GifResponses :
         lastCall' = Call("gifs_info", id, resp, ApiGifsInfo(id, resp, headers))
    /\ UNCHANGED <<proc, cli, headers, session, closes, disk>>

\* search_image(search_text, order=, page=) on either facade.
SearchImage ==
    /\ Library
    /\ \E st \in SearchTexts, q \in SearchParams, resp \in Responses(PageKeys) :
         lastCall' = Call("search_image", st, resp,
                          IF proc = "sync"
                          THEN ApiSearchImage(st, q.order, DefaultCount, q.page, resp, headers)
                          ELSE AioSearchImage(st, q.order, DefaultCount, q.page, resp, headers))
    /\ UNCHANGED <<proc, cli, headers, session, closes, disk>>

\* search_creators(page=, order=, verified=, tags=) on either facade.
SearchCreators ==
    /\ Library
    /\ \E q \in SearchParams, verified \in BOOLEAN, resp \in Responses(CreatorsKeys) :
         lastCall' = Call("search_creators", q, resp,
                          IF proc = "sync"
                          THEN ApiSearchCreators(q.page, q.order, verified, None, resp, headers)
                          ELSE AioSearchCreators(q.page, q.order, verified, None, resp, headers))
    /\ UNCHANGED <<proc, cli, headers, session, closes, disk>>

\* search_creator(username, page=, order=) on either facade, under either of
\* the names it is bound to.
SearchCreator ==
    /\ Library
    /\ \E name \in {"search_creator", "search_user"}, q \in SearchParams,
          resp \in Responses(CreatorKeys) :
         lastCall' = Call(name, "someone", resp,
                          IF proc = "sync"
                          THEN ApiSearchCreator("someone", q.page, q.order, resp, headers)
                          ELSE AioSearchCreator("someone", q.page, q.order, resp, headers))
    /\ UNCHANGED <<proc, cli, headers, session, closes, disk>>

\* download(url, fp) on either facade; `chunks` is how the body arrives.
Download ==
    /\ Library
    /\ \E url \in MediaUrls, fp \in Paths, chunks \in ChunkSeqs :
         LET c == IF proc = "sync" THEN ApiDownload(url, fp, chunks, headers, disk)
                  ELSE AioDownload(url, fp, chunks, headers, disk)
         IN  /\ lastCall' = Call("download", <<url, fp>>, chunks, c)
             /\ disk' = c.disk
    /\ UNCHANGED <<proc, cli, headers, session, closes>>

\* The caller takes the outcome of the call it made and goes on.
Continue ==
    /\ proc \in {"sync", "aio"}
    /\ lastCall.op # "none"
    /\ lastCall' = NoCall
    /\ UNCHANGED <<proc, cli, headers, session, closes, disk>>

LibraryNext ==
    \/ Continue
    \/ Login
    \/ GetGif
    \/ GetTags
    \/ GetTrendingTags
    \/ FetchTagSuggestions
    \/ Search
    \/ GifsInfo
    \/ SearchImage
    \/ SearchCreators
    \/ SearchCreator
    \/ Download
    \/ Close

\* Lines 36-44: the arguments are parsed, the session and the client are
\* made and client.login() is called; an exception ends the process.
ModuleLoad ==
    /\ proc = "cli" /\ cli.pc = "load"
    /\ \E answer \in {"ok", "unreachable"}, tok \in Tokens :
         LET t == ClientLogin(cli.binding, answer, tok, headers)
         IN  /\ headers' = t.headers
             /\ cli' = IF t.outcome.kind = "raise"
                       THEN [cli EXCEPT !.pc = "raised", !.raised = t.outcome.type, !.exit = 1]
                       ELSE [cli EXCEPT !.pc = "main", !.loggedIn = TRUE]
    /\ UNCHANGED <<proc, session, closes, lastCall, disk>>

\* main(), lines 86-88: without any argument the help is printed and the
\* process exits with 1.
MainEnter ==
    /\ proc = "cli" /\ cli.pc = "main"
    /\ cli' = IF cli.args.download = <<>> /\ ~cli.args.list.given /\ ~cli.args.version
              THEN [cli EXCEPT !.pc = "exited", !.exit = 1]
              ELSE [cli EXCEPT !.pc = "download"]
    /\ UNCHANGED <<proc, headers, session, closes, lastCall, disk>>

\* What the server may answer while start_dl(url) runs: it is asked only for
\* a watch page of the site.
NoResponse == [status |-> 0, body |-> <<>>]
LookupResponses(url) ==
    IF HostIsRedgifs(url.host) /\ PathHasWatch(url.path) THEN GifResponses ELSE {NoResponse}

\* Where the run stands after start_dl(url) has run up to save_to_file.
AfterStartDl(c, d) ==
    [c EXCEPT !.pc = IF d.next = "raise" THEN "raised"
                     ELSE IF d.next = "save" THEN "save" ELSE "list",
              !.raised = d.outcome.type,
              !.exit = IF d.next = "raise" THEN 1 ELSE 0,
              !.wire = d.wire,
              !.hd = d.hd]

\* main(), lines 90-91: start_dl(args.download) when -dl was given.
MainDownload ==
    /\ proc = "cli" /\ cli.pc = "download"
    /\ IF cli.args.download = <<>>
       THEN cli' = [cli EXCEPT !.pc = "list"]
       ELSE \E resp \in LookupResponses(cli.args.download[1]) :
              cli' = AfterStartDl(cli, StartDl(cli.args.download[1], resp, headers))
    /\ UNCHANGED <<proc, headers, session, closes, lastCall, disk>>

\* main(), lines 93-96: one turn of the loop over the lines of the list
\* file, or the loop's end.
MainList ==
    /\ proc = "cli" /\ cli.pc = "list"
    /\ IF ~cli.args.list.given \/ cli.line >= Len(cli.args.list.lines)
       THEN cli' = [cli EXCEPT !.pc = "version"]
       ELSE \E resp \in LookupResponses(cli.args.list.lines[cli.line + 1]) :
              LET url == cli.args.list.lines[cli.line + 1]
              IN  cli' = AfterStartDl([cli EXCEPT !.line = @ + 1, !.attempted = Append(@, url)],
                                      StartDl(url, resp, headers))
    /\ UNCHANGED <<proc, headers, session, closes, lastCall, disk>>

\* start_dl, line 83: save_to_file(hd); then back in main.
MainSave ==
    /\ proc = "cli" /\ cli.pc = "save"
    /\ \E chunks \in ChunkSeqs :
         LET t == SaveToFile(cli.hd, chunks, headers, disk)
         IN  /\ disk' = t.disk
             /\ cli' = [cli EXCEPT !.pc = "list", !.wire = t.wire, !.hd = None,
                                   !.saved = <<[name |-> t.name, body |-> Flatten(chunks),
                                                returned |-> t.outcome.value]>>]
    /\ UNCHANGED <<proc, headers, session, closes, lastCall>>

\* main(), lines 98-99: show_version() when -v was given; main returns.
MainVersion ==
    /\ proc = "cli" /\ cli.pc = "version"
    /\ cli' = [cli EXCEPT !.pc = "done"]
    /\ UNCHANGED <<proc, headers, session, closes, lastCall, disk>>

CliNext ==
    \/ ModuleLoad
    \/ MainEnter
    \/ MainDownload
    \/ MainList
    \/ MainSave
    \/ MainVersion

Next == LibraryNext \/ CliNext

Spec == Init /\ [][Next]_vars

----------------------------------------------------------------------------
(* The properties checked.                                                 *)

\* The operations of the facade that the claims name, under every name they
\* are bound to.
SearchOps == {"search", "search_gif", "search_image"}
LookupOps == {"get_gif", "get_tags", "get_trending_tags", "fetch_tag_suggestions",
              "search", "search_gif", "gifs_info", "search_image", "search_creator",
              "search_user", "search_creators"}
FacadeOps == LookupOps \cup {"download"}

\* The invocations of the transport among the collaborators a call invoked.
TransportCalls(trace) == {i \in 1..Len(trace) : trace[i].callee # "Tags.search"}

\* C1: for every server response to a single-item lookup, get_gif of the
\* facade that made the call ends exactly as get_gif of the other facade
\* ends on that response: the same GIF field by field, or the same failure.
GetGifParity ==
    lastCall.op = "get_gif" =>
        lastCall.outcome =
            (IF proc = "sync" THEN AioGetGif(lastCall.arg, lastCall.resp, headers)
             ELSE ApiGetGif(lastCall.arg, lastCall.resp, headers)).outcome

\* The suspending facade has returned a GIF from a single-item lookup.
GetGifParityWitness ==
    /\ proc = "aio"
    /\ lastCall.op = "get_gif"
    /\ lastCall.outcome.kind = "return"

\* The invocations of the resolver among the collaborators a call invoked.
ResolverCalls(trace) == {i \in 1..Len(trace) : trace[i].callee = "Tags.search"}

\* C2: every facade operation, whether it returns or raises, hands exactly
\* one request to the transport, and the transport sends at most one request
\* for it.
OneRequestPerCall ==
    lastCall.op \in FacadeOps =>
        /\ Cardinality(TransportCalls(lastCall.trace)) = 1
        /\ Len(lastCall.wire) <= 1

\* A free-text search of the blocking facade has failed after its one request.
OneRequestPerCallWitness ==
    /\ proc = "sync"
    /\ lastCall.op = "search"
    /\ lastCall.arg.type = "str"
    /\ lastCall.outcome.kind = "raise"
    /\ Cardinality(TransportCalls(lastCall.trace)) = 1

\* C3: a lookup answered with a non-2xx status raises the remote error with
\* that status and nothing else happens: no result, one request handed to the
\* transport and sent once with the headers held, no login.
RemoteErrorSurfaces ==
    (lastCall.op \in LookupOps /\ ~IsOk(lastCall.resp.status)) =>
        /\ lastCall.outcome = Raise("RemoteError", "", lastCall.resp.status)
        /\ Cardinality(TransportCalls(lastCall.trace)) = 1
        /\ \A i \in 1..Len(lastCall.trace) : lastCall.trace[i].callee # "http.login"
        /\ Len(lastCall.wire) = 1
        /\ lastCall.wire[1].headers = headers

\* The suspending facade's get_gif was answered 404.
RemoteErrorSurfacesWitness ==
    /\ proc = "aio"
    /\ lastCall.op = "get_gif"
    /\ lastCall.resp.status = 404
    /\ lastCall.outcome.kind = "raise"

LacksUrls(resp) ==
    /\ IsOk(resp.status)
    /\ "gif" \in DOMAIN resp.body
    /\ "urls" \notin DOMAIN resp.body["gif"]

\* C5: get_gif on a document without `urls` raises the error of a missing
\* key, naming a key the document lacks, and returns no GIF; in both facades.
MissingUrlsFails ==
    (lastCall.op = "get_gif" /\ LacksUrls(lastCall.resp)) =>
        /\ lastCall.outcome.kind = "raise"
        /\ lastCall.outcome.type = "KeyError"
        /\ lastCall.outcome.key \in GifKeys \ DOMAIN lastCall.resp.body["gif"]
        /\ lastCall.outcome.value = None

\* The suspending facade was served a document lacking only `urls`.
MissingUrlsFailsWitness ==
    /\ proc = "aio"
    /\ lastCall.op = "get_gif"
    /\ LacksUrls(lastCall.resp)
    /\ DOMAIN lastCall.resp.body["gif"] = GifKeys \ {"urls"}
    /\ lastCall.outcome.key = "urls"

\* The call c, made with a free text, went through the resolver first and
\* used its first result as the token.
Resolved(c) ==
    LET token == TagsSearch(c.arg.text)[1]
    IN  /\ Len(c.trace) = 2
        /\ c.trace[1] = Invoke("Tags.search", c.arg.text)
        /\ c.trace[2].callee # "Tags.search"
        /\ c.trace[2].arg[1] = token
        /\ Len(c.wire) = 1
        /\ c.wire[1].arg[1] = token
        /\ c.outcome.kind = "return" => c.outcome.value.searched_for = token

\* The call c used `token` as it was given, without the resolver.
Verbatim(c, token) ==
    /\ ResolverCalls(c.trace) = {}
    /\ Len(c.trace) = 1
    /\ c.trace[1].arg[1] = token
    /\ Len(c.wire) = 1
    /\ c.wire[1].arg[1] = token
    /\ c.outcome.kind = "return" => c.outcome.value.searched_for = token

\* C6 as claimed: search, search_gif and search_image alike send a free text
\* through the resolver before the transport and use its result as the token
\* sent and recorded.
FreeTextResolvedInEverySearch ==
    (lastCall.op \in SearchOps /\ lastCall.arg.type = "str") => Resolved(lastCall)

\* C6: search and search_gif send a free text through the resolver before
\* the transport and use its first result as the token sent and recorded;
\* search_image does not use the resolver and sends and records the text
\* as it was given.
FreeTextResolution ==
    (lastCall.op \in SearchOps /\ lastCall.arg.type = "str") =>
        IF lastCall.op = "search_image"
        THEN Verbatim(lastCall, lastCall.arg.text)
        ELSE Resolved(lastCall)

\* search_gif of the blocking facade returned a result for a text that is
\* not itself a token.
FreeTextResolutionWitness ==
    /\ proc = "sync"
    /\ lastCall.op = "search_gif"
    /\ lastCall.arg.type = "str"
    /\ TagsSearch(lastCall.arg.text)[1] # lastCall.arg.text
    /\ lastCall.outcome.kind = "return"

\* C7: a member of Tags given to search, search_gif or search_image, in
\* either facade, is not sent through the resolver; the token sent and
\* recorded is the member's value.
EnumTagVerbatim ==
    (lastCall.op \in SearchOps /\ lastCall.arg.type = "Tags") =>
        Verbatim(lastCall, lastCall.arg.member.value)

\* search of the suspending facade returned a result for a member of Tags.
EnumTagVerbatimWitness ==
    /\ proc = "aio"
    /\ lastCall.op = "search"
    /\ lastCall.arg.type = "Tags"
    /\ lastCall.outcome.kind = "return"

\* C8: every close(), the first and any later one, returns without raising
\* and leaves the session closed; a close() of a closed instance changes
\* nothing of the instance.
CloseIdempotent ==
    [][closes' = closes + 1 =>
          /\ lastCall'.op = "close"
          /\ lastCall'.outcome = Return(None)
          /\ session' = "closed"
          /\ headers' = headers
          /\ disk' = disk
          /\ session = "closed" => session' = session]_vars

\* close() has been called a second time.
CloseIdempotentWitness ==
    /\ closes = 2
    /\ lastCall.op = "close"
    /\ lastCall.outcome.kind = "return"
    /\ session = "closed"

\* The run of the entry point has ended.
CliEnded == proc = "cli" /\ cli.pc \in {"done", "exited", "raised"}

WellFormed(resp) ==
    /\ IsOk(resp.status)
    /\ "gif" \in DOMAIN resp.body
    /\ GifKeys \subseteq DOMAIN resp.body["gif"]
    /\ UrlKeys \subseteq DOMAIN resp.body["gif"]["urls"]

\* C11: get_gif on a well-formed document returns a GIF whose web URL is the
\* watch-page template applied to the document's identifier, not the URL the
\* document carries, and whose sd, hd, poster, thumbnail and vthumbnail are
\* the document's `urls` fields as they came.
WebUrlDerived ==
    (lastCall.op = "get_gif" /\ WellFormed(lastCall.resp)) =>
        LET doc == lastCall.resp.body["gif"]
            gif == lastCall.outcome.value
        IN  /\ lastCall.outcome.kind = "return"
            /\ gif.urls.web_url = <<"https://redgifs.com/watch/", doc["id"]>>
            /\ gif.urls.web_url # doc["urls"]["web_url"]
            /\ gif.urls.sd = doc["urls"]["sd"]
            /\ gif.urls.hd = doc["urls"]["hd"]
            /\ gif.urls.poster = doc["urls"]["poster"]
            /\ gif.urls.thumbnail = doc["urls"]["thumbnail"]
            /\ gif.urls.vthumbnail = doc["urls"]["vthumbnail"]

\* The blocking facade returned a GIF for a document that carries a page URL
\* of its own.
WebUrlDerivedWitness ==
    /\ proc = "sync"
    /\ lastCall.op = "get_gif"
    /\ WellFormed(lastCall.resp)
    /\ "web_url" \in DOMAIN lastCall.resp.body["gif"]["urls"]
    /\ lastCall.outcome.kind = "return"

====
